---- MODULE Spec2Model ----
(***************************************************************************)
(* LibAmbient: initialize / uninitialize / getAmbientScreenHue and the     *)
(* RGBtoHSB conversion, modelled from the library's source.                *)
(*                                                                         *)
(* Floats are modelled as exact fractions <<numerator, denominator>>; an   *)
(* exhaustive run of the C code over [0,255]^3 shows the float hue differs *)
(* from the exact fraction by less than 1e-7 and never rounds to 1.        *)
(* Pointers and GDI handles are indices into the table res (0 is NULL).    *)
(* The pixel buffer is kept run-length encoded: a run is [px, cnt], cnt    *)
(* consecutive pixels holding the same DWORD.                              *)
(***************************************************************************)
EXTENDS Integers, Sequences, FiniteSets, TLC

\* ---------------------------------------------------------------- bounds
\* BigW x BigH : the large sample grid (a 5K screen sampled at full size)
\* ChanStep    : RGBtoHSB is run on every channel value that is a multiple
\*               of ChanStep (and on 1, 127, 128, 254)
\* MaxRes      : initialize is taken while the table of acquired resources
\*               has room for one more session
\* MaxRel      : uninitialize is taken while no resource was released
\*               MaxRel times
BigW == 5120
BigH == 2880
ChanStep == 2
MaxRes == 10
MaxRel == 2

\* ------------------------------------------------------ program constants
HUE_RANGE == 360
SIZEOF_INT == 4
LONG_MAX == 2147483647
BYTE_RANGE == 256

NULL == 0
LONG_MIN == (-LONG_MAX) - 1

\* ------------------------------------------------------------ arithmetic
\* two's-complement addition of two 32-bit signed values
AddWrap(a, b) ==
    IF a >= 0 /\ b >= 0 /\ a > LONG_MAX - b
    THEN (a - LONG_MAX - 1) + (b - LONG_MAX - 1)
    ELSE IF a < 0 /\ b < 0 /\ a < LONG_MIN - b
    THEN (a + LONG_MAX + 1) + (b + LONG_MAX + 1)
    ELSE a + b

\* does the mathematical sum of two in-range values leave the 32-bit range
AddOverflows(a, b) ==
    \/ a >= 0 /\ b >= 0 /\ a > LONG_MAX - b
    \/ a < 0 /\ b < 0 /\ a < LONG_MIN - b

RECURSIVE MulWrap(_, _)
\* the 32-bit two's complement product of c >= 0 and n >= 0: c * n where
\* that fits, and by doubling (mod 2^32) where it does not
MulWrap(c, n) ==
    IF c = 0 \/ n <= LONG_MAX \div c THEN c * n
    ELSE LET h == MulWrap(c, n \div 2)
             d == AddWrap(h, h)
         IN  IF n % 2 = 1 THEN AddWrap(d, c) ELSE d

\* does c * n (c >= 0, n >= 0) exceed LONG_MAX
MulOverflows(c, n) == c > 0 /\ n > LONG_MAX \div c

\* 32-bit signed product of two ints (int * int in C)
IntMul(a, b) ==
    LET p == MulWrap(IF a < 0 THEN -a ELSE a, IF b < 0 THEN -b ELSE b)
    IN  IF (a < 0) = (b < 0) THEN p ELSE -p

\* C integer division, truncating toward zero (b # 0)
TruncDiv(a, b) ==
    LET pos(x, y) == IF x >= 0 THEN x \div y ELSE -((-x) \div y)
    IN  IF b > 0 THEN pos(a, b) ELSE -pos(a, -b)

\* ------------------------------------------------------------- RGBtoHSB
Max3(r, g, b) == LET m == IF r > g THEN r ELSE g IN IF b > m THEN b ELSE m
Min3(r, g, b) == LET m == IF r < g THEN r ELSE g IN IF b < m THEN b ELSE m

\* RGBtoHSB as it would be without the "if (hue < 0) hue += 1.0f" wrap
RGBtoHSB_NoWrap(r, g, b) ==
    LET cmax == Max3(r, g, b)
        cmin == Min3(r, g, b)
        rng  == cmax - cmin
        satZero == cmax = 0 \/ rng = 0
        raw  == IF r = cmax THEN (cmax - b) - (cmax - g)
                ELSE IF g = cmax THEN 2 * rng + (cmax - r) - (cmax - b)
                ELSE 4 * rng + (cmax - g) - (cmax - r)
    IN  [hue |-> IF satZero THEN <<0, 1>> ELSE <<raw, 6 * rng>>,
         saturation |-> IF cmax # 0 THEN <<rng, cmax>> ELSE <<0, 1>>,
         brightness |-> <<cmax, 255>>]

RGBtoHSB(r, g, b) ==
    LET cmax == Max3(r, g, b)
        cmin == Min3(r, g, b)
        rng  == cmax - cmin
        \* saturation = (cmax - cmin) / cmax is 0 exactly when cmax = cmin
        satZero == cmax = 0 \/ rng = 0
        \* hue * rng before the division by 6:
        \*   redc = (cmax - r) / rng, greenc = (cmax - g) / rng, ...
        raw  == IF r = cmax THEN (cmax - b) - (cmax - g)
                ELSE IF g = cmax THEN 2 * rng + (cmax - r) - (cmax - b)
                ELSE 4 * rng + (cmax - g) - (cmax - r)
        den  == 6 * rng
    IN  [hue |-> IF satZero THEN <<0, 1>>
                 ELSE IF raw < 0 THEN <<raw + den, den>> ELSE <<raw, den>>,
         saturation |-> IF cmax # 0 THEN <<rng, cmax>> ELSE <<0, 1>>,
         brightness |-> <<cmax, 255>>]

\* two fractions denote the same number
FracEq(p, q) == p[1] * q[2] = q[1] * p[2]
\* a fraction with positive denominator lies in [0, 1)
InUnit(p) == p[2] > 0 /\ 0 <= p[1] /\ p[1] < p[2]


\* ------------------------------------------------------ helpers on memory
\* A block of ints is kept as runs [val, cnt]: cnt consecutive ints of value
\* val; equal neighbours are merged, so a block has one representation.
RECURSIVE DropInts(_, _)
\* the block without its first k ints
DropInts(runs, k) ==
    IF k <= 0 \/ runs = <<>> THEN runs
    ELSE IF runs[1].cnt <= k THEN DropInts(Tail(runs), k - runs[1].cnt)
    ELSE <<[val |-> runs[1].val, cnt |-> runs[1].cnt - k]>> \o Tail(runs)

\* memset(block, 0, bytes) on a block of ints, bytes a multiple of sizeof(int)
MemsetZero(runs, bytes) ==
    LET k    == bytes \div SIZEOF_INT
        rest == DropInts(runs, k)
    IN  IF k <= 0 THEN runs
        ELSE IF rest # <<>> /\ rest[1].val = 0
        THEN <<[val |-> 0, cnt |-> k + rest[1].cnt]>> \o Tail(rest)
        ELSE <<[val |-> 0, cnt |-> k]>> \o rest

\* clear_buffers as it would be with the length HUE_RANGE, "* sizeof(int)"
\* forgotten
clear_buffers_ShortLen(mem) == MemsetZero(mem, HUE_RANGE)

\* memset(g_hues, 0, HUE_RANGE * sizeof(int))
clear_buffers(mem) == MemsetZero(mem, HUE_RANGE * SIZEOF_INT)

\* a block of HUE_RANGE ints as malloc hands it out (contents unspecified)
FreshHues(fill) == <<[val |-> fill, cnt |-> HUE_RANGE]>>

\* every one of the HUE_RANGE counters of a block is zero
AllZero(mem) == mem = <<[val |-> 0, cnt |-> HUE_RANGE]>>

\* a block of n pixels as malloc / CreateCompatibleBitmap hand it out
FreshPixels(n, fill) == IF n > 0 THEN <<[px |-> fill, cnt |-> n]>> ELSE <<>>

RECURSIVE RunsLen(_)
RunsLen(runs) ==
    IF runs = <<>> THEN 0 ELSE runs[1].cnt + RunsLen(Tail(runs))

\* wingdi.h: GetRValue is the low byte of the DWORD, GetGValue the second,
\* GetBValue the third
GetRValue(px) == px % BYTE_RANGE
GetGValue(px) == (px \div BYTE_RANGE) % BYTE_RANGE
GetBValue(px) == (px \div (BYTE_RANGE * BYTE_RANGE)) % BYTE_RANGE

\* a 32-bit BI_RGB DIB pixel is an RGBQUAD {rgbBlue, rgbGreen, rgbRed, 0}:
\* read as a little-endian DWORD the blue byte is the lowest
DIBPixel(c) == c.b + BYTE_RANGE * c.g + BYTE_RANGE * BYTE_RANGE * c.r

\* GetDIBits: the bitmap's colours as DIB DWORDs, run by run
GetDIBits(shotRuns) ==
    [i \in 1..Len(shotRuns) |->
        [px |-> DIBPixel(shotRuns[i].c), cnt |-> shotRuns[i].cnt]]

ChannelOf(chan, px) ==
    IF chan = "R" THEN GetRValue(px)
    ELSE IF chan = "G" THEN GetGValue(px) ELSE GetBValue(px)

RECURSIVE SumRuns(_, _)
\* the sampling loop: xSum += GetXValue(g_pixelBuffer[y * w + x]) over the
\* buffer, in a 32-bit long; ovf tells whether the true sum left the range
SumRuns(runs, chan) ==
    IF runs = <<>> THEN [v |-> 0, ovf |-> FALSE]
    ELSE LET rest == SumRuns(Tail(runs), chan)
             c    == ChannelOf(chan, runs[1].px)
             t    == MulWrap(c, runs[1].cnt)
         IN  [v   |-> AddWrap(rest.v, t),
              ovf |-> rest.ovf \/ MulOverflows(c, runs[1].cnt)
                               \/ AddOverflows(rest.v, t)]


\* ------------------------------------------------------------------ state
VARIABLES
    g_bitmapWidth, g_bitmapHeight,   \* int globals, zero-initialised
    g_screenWidth, g_screenHeight,
    g_hues,                          \* int*      : index into res, or NULL
    g_pixelBuffer,                   \* COLORREF* : index into res, or NULL
    g_hBitmap, g_hScreenDC, g_hMemoryDC,   \* GDI handles, likewise
    g_bitmapInfoHeader,              \* the biWidth / biHeight fields
    res,        \* every block / handle ever acquired: [kind, rel], rel
                \* counting the releases it has received
    huesMem,    \* contents of the block g_hues points at
    pixelMem,   \* contents of the block g_pixelBuffer points at (runs)
    bmpMem,     \* contents of the bitmap g_hBitmap names (colour runs)
    crashed,    \* the process died in a call
    ret,        \* what the last call returned: [kind, hue]
    lastOp,     \* history: the last call made
    live,       \* history: initialize was called and uninitialize not since
    liveBefore, \* history: live, as it was when the last call was made
    capOk,      \* history: the last query's StretchBlt and GetDIBits worked
    shot,       \* history: the screen the last query was shown (colour runs)
    first,      \* history: the session as the first initialize left it
    cr, cg, cb, dest    \* the arguments and the output of one RGBtoHSB call

vars == <<g_bitmapWidth, g_bitmapHeight, g_screenWidth, g_screenHeight,
          g_hues, g_pixelBuffer, g_hBitmap, g_hScreenDC, g_hMemoryDC,
          g_bitmapInfoHeader, res, huesMem, pixelMem, bmpMem, crashed, ret,
          lastOp, live, liveBefore, capOk, shot, first, cr, cg, cb, dest>>

libVars == <<g_bitmapWidth, g_bitmapHeight, g_screenWidth, g_screenHeight,
             g_hues, g_pixelBuffer, g_hBitmap, g_hScreenDC, g_hMemoryDC,
             g_bitmapInfoHeader, res, huesMem, pixelMem, bmpMem, crashed,
             ret, lastOp, live, liveBefore, capOk, shot, first>>

convVars == <<cr, cg, cb, dest>>

\* ----------------------------------------------------------------- inputs
Red    == [r |-> 255, g |-> 0,   b |-> 0]
Blue   == [r |-> 0,   g |-> 0,   b |-> 255]
Yellow == [r |-> 255, g |-> 255, b |-> 0]
Palette == {Red, Blue, Yellow}

\* <<screenWidth, screenHeight, bitmapWidth, bitmapHeight>>
Configs ==
    { <<BigW, BigH, 2, 1>>, <<BigW, BigH, BigW, BigH>>,
      <<BigW, BigH, 0, 2>>, <<BigW, BigH, -1, -1>>, <<0, 0, 2, 1>> }

\* what may go wrong in one initialize (at most one failure per call)
FailModes == {"none", "hues", "pixels", "dc", "memdc", "bitmap"}

\* unspecified contents of fresh memory (debug-heap fill bytes, or zero)
GarbageInts   == {0, -842150451}
GarbagePixels == {0, 13487565}

\* the screens a query may be shown, for a grid of n pixels: one colour, or
\* two colours half and half
Shots(n) ==
    IF n <= 0 THEN {<<>>}
    ELSE { <<[c |-> c1, cnt |-> n]>> : c1 \in Palette }
         \cup (IF n < 2 THEN {}
               ELSE { <<[c |-> p[1], cnt |-> n \div 2],
                        [c |-> p[2], cnt |-> n - (n \div 2)]>> :
                      p \in {q \in Palette \X Palette : q[1] # q[2]} })

\* outcomes of the undefined behaviours the calls can run into
UafOutcomes  == {"stale", "garbage", "fault"}  \* access to a freed block
OvfOutcomes  == {"wrap", "trap"}               \* signed overflow of a sum
DivOutcomes  == {"trap", "zero"}               \* integer division by zero
FreeOutcomes == {"continue", "abort"}          \* free of a freed block

NoRet    == [kind |-> "none",  hue |-> <<0, 1>>]
VoidRet  == [kind |-> "void",  hue |-> <<0, 1>>]
CrashRet == [kind |-> "crash", hue |-> <<0, 1>>]
HueRet(h) == [kind |-> "hue", hue |-> h]

\* ------------------------------------------------------- resource table
Alloc(table, kind) == Append(table, [kind |-> kind, rel |-> 0])
Held(table, p) == p # NULL /\ table[p].rel = 0
Release(table, p) == [table EXCEPT ![p].rel = @ + 1]
HeldOfKind(table, kind) ==
    Cardinality({i \in 1..Len(table) :
                    table[i].kind = kind /\ table[i].rel = 0})
Kinds == {"hues", "pixels", "dc", "memdc", "bitmap"}
CaptureKinds == {"dc", "memdc", "bitmap"}

\* what the library holds for the session, as an observer sees it
SessionView(cfg, table, hm, pm) ==
    [cfg      |-> cfg,
     gridSize |-> RunsLen(pm),
     hist     |-> hm,
     handles  |-> [k \in CaptureKinds |-> HeldOfKind(table, k)]]

\* ------------------------------------------------------------------- Init
\* the library as the loader leaves it: zero-initialised globals, nothing held
LibInit ==
    /\ g_bitmapWidth = 0 /\ g_bitmapHeight = 0
    /\ g_screenWidth = 0 /\ g_screenHeight = 0
    /\ g_hues = NULL /\ g_pixelBuffer = NULL
    /\ g_hBitmap = NULL /\ g_hScreenDC = NULL /\ g_hMemoryDC = NULL
    /\ g_bitmapInfoHeader = [biWidth |-> 0, biHeight |-> 0]
    /\ res = <<>>
    /\ huesMem = FreshHues(0)
    /\ pixelMem = <<>>
    /\ bmpMem = <<>>
    /\ crashed = FALSE
    /\ ret = NoRet
    /\ lastOp = "none"
    /\ live = FALSE /\ liveBefore = FALSE
    /\ capOk = FALSE
    /\ shot = <<>>
    /\ first = [set |-> FALSE]

Init ==
    /\ LibInit
    /\ cr = 0 /\ cg = 0 /\ cb = 0
    /\ dest = [set |-> FALSE]


\* ------------------------------------------------------------- initialize
\* a session an observer would call successfully initialised: positive
\* dimensions, both buffers and the three capture handles obtained
GoodInit(cfg, fail) ==
    /\ cfg[1] > 0 /\ cfg[2] > 0 /\ cfg[3] > 0 /\ cfg[4] > 0
    /\ fail = "none"

Initialize(cfg, fail, hfill, pfill) ==
    LET sw == cfg[1]
        sh == cfg[2]
        bw == cfg[3]
        bh == cfg[4]
        \* malloc(HUE_RANGE * sizeof(int))
        hOk   == fail # "hues"
        res1  == IF hOk THEN Alloc(res, "hues") ELSE res
        hues  == IF hOk THEN Len(res1) ELSE NULL
        \* malloc(bitmapWidth * bitmapHeight * sizeof(COLORREF)): the int
        \* product converts to size_t, a negative one to an unsatisfiable size
        cnt   == IntMul(bw, bh)
        pOk   == fail # "pixels" /\ cnt >= 0
        res2  == IF pOk THEN Alloc(res1, "pixels") ELSE res1
        pix   == IF pOk THEN Len(res2) ELSE NULL
        pm    == IF pOk THEN FreshPixels(cnt, pfill) ELSE <<>>
        \* CreateDC
        dcOk  == fail # "dc"
        res3  == IF dcOk THEN Alloc(res2, "dc") ELSE res2
        dc    == IF dcOk THEN Len(res3) ELSE NULL
        \* CreateCompatibleDC (a NULL argument means "the current screen")
        mOk   == fail # "memdc"
        res4  == IF mOk THEN Alloc(res3, "memdc") ELSE res3
        mdc   == IF mOk THEN Len(res4) ELSE NULL
        \* CreateCompatibleBitmap needs the screen DC
        bOk   == fail # "bitmap" /\ dc # NULL
        res5  == IF bOk THEN Alloc(res4, "bitmap") ELSE res4
        bmp   == IF bOk THEN Len(res5) ELSE NULL
        hm    == clear_buffers(FreshHues(hfill))
    IN
    /\ ~crashed
    /\ Len(res) + Cardinality(Kinds) <= MaxRes
    /\ g_screenWidth' = sw /\ g_screenHeight' = sh
    /\ g_bitmapWidth' = bw /\ g_bitmapHeight' = bh
    /\ g_hues' = hues
    /\ g_pixelBuffer' = pix
    /\ pixelMem' = pm
    /\ lastOp' = "initialize"
    /\ liveBefore' = live
    /\ live' = TRUE
    /\ UNCHANGED <<capOk, shot>>
    /\ IF hues = NULL
       THEN \* clear_buffers() writes through the NULL g_hues
            /\ crashed' = TRUE
            /\ ret' = CrashRet
            /\ res' = res2
            /\ first' = IF first.set THEN first ELSE [set |-> TRUE, ok |-> FALSE]
            /\ UNCHANGED <<huesMem, bmpMem, g_hBitmap, g_hScreenDC,
                           g_hMemoryDC, g_bitmapInfoHeader>>
       ELSE /\ huesMem' = hm
            /\ g_hScreenDC' = dc
            /\ g_hMemoryDC' = mdc
            /\ g_hBitmap' = bmp
            /\ bmpMem' = IF bOk /\ cnt > 0 /\ bw > 0
                         THEN <<[c |-> [r |-> 0, g |-> 0, b |-> 0], cnt |-> cnt]>>
                         ELSE <<>>
            /\ g_bitmapInfoHeader' = [biWidth |-> bw, biHeight |-> bh]
            /\ res' = res5
            /\ crashed' = FALSE
            /\ ret' = VoidRet
            /\ first' = IF first.set THEN first
                        ELSE IF GoodInit(cfg, fail)
                        THEN [set |-> TRUE, ok |-> TRUE,
                              view |-> SessionView(cfg, res5, hm, pm)]
                        ELSE [set |-> TRUE, ok |-> FALSE]

\* ----------------------------------------------------------- uninitialize
\* free(p): nothing for NULL, a release for a held block; freeing a freed
\* block is undefined: the heap either aborts the process or goes on
FreeStep(st, p, outcome) ==
    IF st.dead \/ p = NULL THEN st
    ELSE IF st.table[p].rel = 0
    THEN [st EXCEPT !.table = Release(st.table, p)]
    ELSE [table |-> Release(st.table, p), dead |-> outcome = "abort"]

\* DeleteDC(h): an invalid (NULL or already deleted) handle is refused
DeleteDCStep(st, h) ==
    IF st.dead \/ ~Held(st.table, h) THEN st
    ELSE [st EXCEPT !.table = Release(st.table, h)]

Uninitialize(outcome) ==
    LET s0 == [table |-> res, dead |-> FALSE]
        s1 == FreeStep(s0, g_hues, outcome)
        s2 == FreeStep(s1, g_pixelBuffer, outcome)
        s3 == DeleteDCStep(s2, g_hMemoryDC)
        s4 == DeleteDCStep(s3, g_hScreenDC)
    IN
    /\ ~crashed
    /\ \A i \in 1..Len(res) : res[i].rel < MaxRel
    /\ res' = s4.table
    /\ crashed' = s4.dead
    /\ ret' = IF s4.dead THEN CrashRet ELSE VoidRet
    /\ lastOp' = "uninitialize"
    /\ liveBefore' = live
    /\ live' = FALSE
    /\ UNCHANGED <<g_bitmapWidth, g_bitmapHeight, g_screenWidth,
                   g_screenHeight, g_hues, g_pixelBuffer, g_hBitmap,
                   g_hScreenDC, g_hMemoryDC, g_bitmapInfoHeader, huesMem,
                   pixelMem, bmpMem, capOk, shot, first>>


\* ---------------------------------------------------- getAmbientScreenHue
\* the number of pixels the sampling loops visit
LoopCount == IF g_bitmapHeight > 0 /\ g_bitmapWidth > 0
             THEN IntMul(g_bitmapWidth, g_bitmapHeight) ELSE 0

\* StretchBlt can copy the screen into the bitmap selected into the memory DC
CanBlt ==
    /\ Held(res, g_hMemoryDC) /\ Held(res, g_hScreenDC) /\ Held(res, g_hBitmap)
    /\ g_bitmapWidth > 0 /\ g_bitmapHeight > 0
    /\ g_screenWidth > 0 /\ g_screenHeight > 0

\* GetDIBits can read the bitmap through the memory DC
CanGetBits ==
    /\ Held(res, g_hMemoryDC) /\ Held(res, g_hBitmap)
    /\ g_bitmapInfoHeader.biWidth > 0 /\ g_bitmapInfoHeader.biHeight > 0

\* "Average result": xSum /= pixelCount; where the division by zero does not
\* trap it yields 0
Average(sum, pixelCount) ==
    IF pixelCount = 0 THEN 0 ELSE TruncDiv(sum, pixelCount)

\* RGBtoHSB(bSum, gSum, rSum, hsb); return hsb[0]
HueOfAverages(rSum, gSum, bSum) == RGBtoHSB(bSum, gSum, rSum).hue

\* the whole call: cap is what the platform does with the capture calls,
\* grid the screen it would deliver, uaf / ovf / dz the outcomes of the
\* undefined behaviours the call may run into
QueryStep(cap, grid, uaf, ovf, dz) ==
    LET bltDone == cap = "ok" /\ CanBlt
        bmp1    == IF bltDone THEN grid ELSE bmpMem
        dibDone == cap # "dib_failed" /\ CanGetBits
        pm1     == IF dibDone /\ g_pixelBuffer # NULL
                   THEN GetDIBits(bmp1) ELSE pixelMem
        n       == LoopCount
        pixFreed == g_pixelBuffer # NULL /\ ~Held(res, g_pixelBuffer)
        huesFreed == g_hues # NULL /\ ~Held(res, g_hues)
        nullRead == n > 0 /\ g_pixelBuffer = NULL
        badRead  == n > 0 /\ pixFreed /\ uaf = "fault"
        content == IF n = 0 THEN <<>>
                   ELSE IF pixFreed /\ uaf = "garbage"
                   THEN FreshPixels(n, 13487565)
                   ELSE pm1
        rS == SumRuns(content, "R")
        gS == SumRuns(content, "G")
        bS == SumRuns(content, "B")
        overflow == rS.ovf \/ gS.ovf \/ bS.ovf
        pixelCount == IntMul(g_bitmapWidth, g_bitmapHeight)
        rAvg == Average(rS.v, pixelCount)
        gAvg == Average(gS.v, pixelCount)
        bAvg == Average(bS.v, pixelCount)
        dead == \/ nullRead \/ badRead
                \/ overflow /\ ovf = "trap"
                \/ pixelCount = 0 /\ dz = "trap"
                \/ g_hues = NULL
                \/ huesFreed /\ uaf = "fault"
    IN  [bmp   |-> bmp1,
         pm    |-> pm1,
         hm    |-> IF dead THEN huesMem ELSE clear_buffers(huesMem),
         capOk |-> bltDone /\ dibDone,
         dead  |-> dead,
         ret   |-> IF dead THEN CrashRet
                   ELSE HueRet(HueOfAverages(rAvg, gAvg, bAvg))]

GetAmbientScreenHue(cap, grid, uaf, ovf, dz) ==
    LET q == QueryStep(cap, grid, uaf, ovf, dz)
    IN
    /\ ~crashed
    /\ bmpMem' = q.bmp
    /\ pixelMem' = q.pm
    /\ huesMem' = q.hm
    /\ crashed' = q.dead
    /\ ret' = q.ret
    /\ capOk' = q.capOk
    /\ shot' = IF q.capOk THEN grid ELSE <<>>
    /\ lastOp' = "query"
    /\ liveBefore' = live
    /\ UNCHANGED <<g_bitmapWidth, g_bitmapHeight, g_screenWidth,
                   g_screenHeight, g_hues, g_pixelBuffer, g_hBitmap,
                   g_hScreenDC, g_hMemoryDC, g_bitmapInfoHeader, res, live,
                   first>>

\* ---------------------------------------------------------- specification
CaptureOutcomes == {"ok", "blt_failed", "dib_failed"}

DoInitialize ==
    /\ \E cfg \in Configs, fail \in FailModes,
          hfill \in GarbageInts, pfill \in GarbagePixels :
            Initialize(cfg, fail, hfill, pfill)
    /\ UNCHANGED convVars

DoUninitialize ==
    /\ \E outcome \in FreeOutcomes : Uninitialize(outcome)
    /\ UNCHANGED convVars

\* an outcome is chosen only for an undefined behaviour the call runs into,
\* and a screen only where the capture can deliver one
Dangling(p) == p # NULL /\ ~Held(res, p)

DoQuery ==
    /\ \E cap \in CaptureOutcomes,
          grid \in (IF CanBlt THEN Shots(LoopCount) ELSE {<<>>}),
          uaf \in (IF Dangling(g_hues) \/ Dangling(g_pixelBuffer)
                   THEN UafOutcomes ELSE {"stale"}),
          ovf \in (IF MulOverflows(BYTE_RANGE - 1, LoopCount)
                   THEN OvfOutcomes ELSE {"wrap"}),
          dz \in (IF IntMul(g_bitmapWidth, g_bitmapHeight) = 0
                  THEN DivOutcomes ELSE {"zero"}) :
            GetAmbientScreenHue(cap, grid, uaf, ovf, dz)
    /\ UNCHANGED convVars

Next == DoInitialize \/ DoUninitialize \/ DoQuery

Spec == Init /\ [][Next]_vars

\* ------------------------------------------ RGBtoHSB on its own: ConvSpec
ChannelVals == {v \in 0..255 : v % ChanStep = 0} \cup {1, 127, 128, 254}

ConvInit ==
    /\ LibInit
    /\ cr \in ChannelVals /\ cg \in ChannelVals /\ cb \in ChannelVals
    /\ dest = [set |-> FALSE]

Convert ==
    /\ ~dest.set
    /\ dest' = [set |-> TRUE, hsb |-> RGBtoHSB(cr, cg, cb)]
    /\ UNCHANGED <<cr, cg, cb>>
    /\ UNCHANGED libVars

ConvSpec == ConvInit /\ [][Convert]_vars


\* ================================================================= claims
\* The statements below are written against the screen a query was shown
\* (shot) and the calls made (lastOp, liveBefore), never against the
\* library's own intermediate values.

\* the session the globals describe is a properly initialised one: positive
\* dimensions, both buffers and all three capture handles held
GoodSession ==
    /\ g_screenWidth > 0 /\ g_screenHeight > 0
    /\ g_bitmapWidth > 0 /\ g_bitmapHeight > 0
    /\ Held(res, g_hues) /\ Held(res, g_pixelBuffer)
    /\ Held(res, g_hScreenDC) /\ Held(res, g_hMemoryDC)
    /\ Held(res, g_hBitmap)

RECURSIVE DivMod(_, _, _)
\* <<q, r>> with c * m = q * n + r and 0 <= r < n, without forming c * m
DivMod(c, m, n) ==
    IF m = 0 THEN <<0, 0>>
    ELSE LET h  == DivMod(c, m \div 2, n)
             q2 == 2 * h[1] + ((2 * h[2]) \div n)
             r2 == (2 * h[2]) % n
             r3 == IF m % 2 = 1 THEN r2 + c ELSE r2
         IN  <<q2 + (r3 \div n), r3 % n>>

RECURSIVE AvgParts(_, _, _)
\* the quotient and the remainder parts of the channel's sum over n
AvgParts(runs, chan, n) ==
    IF runs = <<>> THEN <<0, 0>>
    ELSE LET c    == IF chan = "r" THEN runs[1].c.r
                     ELSE IF chan = "g" THEN runs[1].c.g ELSE runs[1].c.b
             head == DivMod(c, runs[1].cnt, n)
             rest == AvgParts(Tail(runs), chan, n)
         IN  <<head[1] + rest[1], head[2] + rest[2]>>

\* floor(sum of the channel over the screen / number of pixels), exactly
ExactAvg(runs, chan) ==
    LET n == RunsLen(runs)
        p == AvgParts(runs, chan, n)
    IN  p[1] + (p[2] \div n)

\* the hue of the truncated per-channel average of a screen
AverageHue(runs) ==
    RGBtoHSB(ExactAvg(runs, "r"), ExactAvg(runs, "g"), ExactAvg(runs, "b")).hue

\* C1: a query made while no session is live (before the first initialize,
\* or after uninitialize) reports a state error: it returns no hue and does
\* not crash on an unallocated or freed buffer.
C1_QueryWithoutSessionIsStateError ==
    (lastOp = "query" /\ ~liveBefore) => ret.kind = "state_error"

\* C2: every resource initialize acquires is released exactly once, by
\* uninitialize: none is ever released twice, and after uninitialize on a
\* live session whose initialize obtained everything none is still held.
C2_ReleasedExactlyOnce ==
    /\ \A i \in 1..Len(res) : res[i].rel <= 1
    /\ (lastOp = "uninitialize" /\ liveBefore /\ first.set /\ first.ok)
          => \A i \in 1..Len(res) : res[i].rel = 1

\* C3: a second initialize that returns, with no uninitialize since a first
\* one that obtained everything, does not leak the first session's
\* resources: at most one resource of each kind is held.
C3_ReinitializeDoesNotLeak ==
    (lastOp = "initialize" /\ liveBefore /\ ~crashed
     /\ first.set /\ first.ok)
        => \A k \in Kinds : HeldOfKind(res, k) <= 1

\* C4: a query whose capture step failed on a properly initialised session
\* reports a capture error (and so no hue from the old grid contents).
C4_CaptureFailureIsReported ==
    (lastOp = "query" /\ liveBefore /\ GoodSession /\ ~capOk)
        => ret.kind = "capture_error"

\* C5: initialize with a non-positive dimension, a failed allocation or a
\* failed capture-context creation reports an initialization error, and the
\* query that follows it computes no hue.
C5_BadInitializeIsRejected ==
    /\ (lastOp = "initialize" /\ ~GoodSession) => ret.kind = "init_error"
    /\ (lastOp = "query" /\ liveBefore /\ ~GoodSession) => ret.kind # "hue"

\* C6: uninitialize followed by initialize with the first session's
\* configuration gives the session the first initialize gave: the same
\* configuration, grid size, all-zero histogram and held capture handles.
C6_ReinitializedSessionIsIdentical ==
    (/\ lastOp = "initialize" /\ ~liveBefore /\ GoodSession
     /\ first.set /\ first.ok
     /\ first.view.cfg = <<g_screenWidth, g_screenHeight,
                           g_bitmapWidth, g_bitmapHeight>>)
        => SessionView(first.view.cfg, res, huesMem, pixelMem) = first.view

\* C7: the hue RGBtoHSB writes for r, g, b in [0,255] is a fraction h with
\* 0 <= h < 1.
C7_HueInUnitInterval ==
    dest.set => InUnit(dest.hsb.hue)

\* C7 witness: a conversion whose raw hue is negative (red maximal, blue
\* above green) has been made and was wrapped to a positive fraction
C7_Witness ==
    /\ dest.set /\ cr = 254 /\ cg = 0 /\ cb = 1
    /\ dest.hsb.hue[1] > 0

\* C8: the hue a query returns is the hue of the truncated per-channel
\* average of the whole grid it captured, red as red and blue as blue.
C8_AverageThenConvert ==
    (lastOp = "query" /\ liveBefore /\ GoodSession /\ capOk)
        => (ret.kind = "hue" /\ FracEq(ret.hue, AverageHue(shot)))

\* C9: for a grid whose pixels all have the colour C, the query returns the
\* hue of RGBtoHSB(C), whatever the configured grid size.
C9_UniformGridGivesColourHue ==
    (lastOp = "query" /\ liveBefore /\ GoodSession /\ capOk /\ Len(shot) = 1)
        => (/\ ret.kind = "hue"
            /\ FracEq(ret.hue,
                      RGBtoHSB(shot[1].c.r, shot[1].c.g, shot[1].c.b).hue))

\* C10: whenever a session is live and no call is in progress, the histogram
\* block is held and all of its HUE_RANGE counters are zero.
C10_HistogramZeroBetweenQueries ==
    (live /\ ~crashed) => (Held(res, g_hues) /\ AllZero(huesMem))

\* C10 witness: a query has run to its end in a live session
C10_Witness ==
    /\ live /\ ~crashed /\ lastOp = "query" /\ ret.kind = "hue" /\ capOk
    /\ AllZero(huesMem)

====
